---- MODULE Spec2Model ----
(***************************************************************************)
(* Model of wandb/apis/artifacts.py: resolution of user paths into path    *)
(* specs, construction of LocalArtifactManifestV1, and the save / wait     *)
(* protocol of LocalArtifact against the registry and the file pusher.     *)
(***************************************************************************)
EXTENDS Naturals, Sequences, FiniteSets, TLC

VARIABLES
    paths,            \* the caller's input object: [kind, items] (a dict is shared by reference)
    origPaths,        \* history: the caller's input as the caller built it
    manifest,         \* result of the latest LocalArtifactManifestV1(...) call
    prev,             \* result of the call before it
    pc,               \* position of the caller thread inside save / wait
    idx,              \* loop index of save's "for entry in entries"
    server_artifact,  \* LocalArtifact._server_artifact: None or Some([id, state])
    remote,           \* registry: state of every version id
    pending,          \* file pusher: transfers submitted and not yet acknowledged
    calls,            \* history: file pusher calls in the order save issued them
    callsBase,        \* history: Len(calls) when the current / latest save began
    saveOutcome,      \* history: how the latest save ended
    waitOutcome,      \* history: how the latest wait ended
    savedOk,          \* history: some save has returned a version
    nSaves,           \* number of save calls begun
    nCreate           \* number of create_artifact_version calls issued

manifestVars == <<paths, origPaths, manifest, prev>>
syncVars == <<pc, idx, server_artifact, remote, pending, calls, callsBase,
              saveOutcome, waitOutcome, savedOk, nSaves, nCreate>>
vars == <<paths, origPaths, manifest, prev, pc, idx, server_artifact, remote,
          pending, calls, callsBase, saveOutcome, waitOutcome, savedOk, nSaves,
          nCreate>>

----------------------------------------------------------------------------
(* Bounds *)

MaxLen == 2
MaxSaves == 2

----------------------------------------------------------------------------
(* Values *)

VersionIds == {1, 2}

VersionStates == {"PENDING", "COMMITTED", "READY", "DELETED"}

None == <<>>
Some(x) == <<x>>

ARTIFACT_METADATA_FILENAME == "artifact-metadata.json"

Range(s) == {s[i] : i \in DOMAIN s}

SeqsUpTo(S, n) == UNION {[1..k -> S] : k \in 0..n}

\* every reordering of the sequence s
Reorderings(s) ==
    {[i \in 1..Len(s) |-> s[f[i]]] : f \in Permutations(1..Len(s))}

----------------------------------------------------------------------------
(* The file system the program reads.  A local path is the sequence of its *)
(* components; directories are one level deep.                             *)

LocalFiles ==
    {<<"x", "a.txt">>, <<"x", "b.txt">>, <<"y", "a.txt">>,
     <<"x", ARTIFACT_METADATA_FILENAME>>}

MissingFiles == {<<"y", "b.txt">>}

Directories == {<<"x">>, <<"y">>, <<"e">>}

FileContent(p) ==
    CASE p = <<"x", "a.txt">> -> "AAA"
      [] p = <<"y", "a.txt">> -> "BBB"
      [] p = <<"x", "b.txt">> -> "BBB"
      [] p = <<"x", ARTIFACT_METADATA_FILENAME>> -> "{k2: 2, k1: 1}"

isfile(p) == p \in LocalFiles
isdir(p) == p \in Directories

FilesUnder(d) == {p \in LocalFiles : Len(p) = Len(d) + 1 /\ SubSeq(p, 1, Len(d)) = d}

\* os.walk: the files below d, in some listing order
WalkOrders(d) ==
    IF isdir(d)
    THEN {q \in [1..Cardinality(FilesUnder(d)) -> FilesUnder(d)] :
            Range(q) = FilesUnder(d)}
    ELSE {<<>>}

basename(p) == p[Len(p)]

relpath(p, root) == p[Len(root) + 1]

abspath(p) == <<"/">> \o p

\* util.md5_file: a fingerprint of the bytes, and of nothing else
md5(bytes) == <<"md5", bytes>>

hash_file(p) == md5(FileContent(p))

----------------------------------------------------------------------------
(* ArtifactMetadata.  A JSON object is the sequence of its (key, value)    *)
(* pairs in insertion order; keys are ranked by their sort order.          *)

Doc21 == <<<<2, 2>>, <<1, 1>>>>

MetadataArgs == {None, Some(Doc21)}

\* json.load(open(path), object_pairs_hook=OrderedDict)
IsJson(content) == content \in {"{k2: 2, k1: 1}"}
json_load(content) == CASE content = "{k2: 2, k1: 1}" -> Doc21

RECURSIVE SortPairs(_)
SortPairs(S) ==
    IF S = {} THEN <<>>
    ELSE LET m == CHOOSE e \in S : \A o \in S : e[1] <= o[1]
         IN <<m>> \o SortPairs(S \ {m})

\* ArtifactMetadata.dump: json.dump(..., sort_keys=True, indent=4)
MetadataDump(doc) == <<"json", SortPairs(Range(doc))>>

\* ArtifactMetadata.digest
MetadataDigest(doc) == md5(MetadataDump(doc))

----------------------------------------------------------------------------
(* Path specs: a dict is the sequence of its (key, value) items in         *)
(* insertion order, keys unique.                                           *)

Keys(specs) == {specs[i][1] : i \in DOMAIN specs}

Lookup(specs, k) == (CHOOSE e \in Range(specs) : e[1] = k)[2]

Pop(specs, k) == SelectSeq(specs, LAMBDA e : e[1] # k)

DuplicateBasename(items, i) ==
    \E j \in 1..(i - 1) : basename(items[j]) = basename(items[i])

\* a buggy variant: a repeated basename is overwritten in place
ListPathSpecsOverwrite(items) ==
    LET firsts == SelectSeq([i \in DOMAIN items |-> <<i, items[i]>>],
                            LAMBDA e : ~DuplicateBasename(items, e[1]))
        last(b) == items[CHOOSE j \in DOMAIN items :
                            /\ basename(items[j]) = b
                            /\ \A k \in DOMAIN items :
                                 basename(items[k]) = b => k <= j]
    IN [err |-> "ok",
        specs |-> [i \in DOMAIN firsts |->
                     <<basename(firsts[i][2]), last(basename(firsts[i][2]))>>]]

\* the list branch of user_paths_to_path_specs
ListPathSpecs(items) ==
    IF \E i \in DOMAIN items : DuplicateBasename(items, i)
    THEN [err |-> "DuplicateName", specs |-> <<>>]
    ELSE [err |-> "ok",
          specs |-> [i \in DOMAIN items |-> <<basename(items[i]), items[i]>>]]

\* the single file-or-directory branch of user_paths_to_path_specs
SinglePathSpecs(path, walk) ==
    IF isdir(path)
    THEN [err |-> "ok",
          specs |-> [i \in DOMAIN walk |-> <<relpath(walk[i], path), walk[i]>>]]
    ELSE IF isfile(path)
    THEN [err |-> "ok", specs |-> <<<<basename(path), path>>>>]
    ELSE [err |-> "InvalidInput", specs |-> <<>>]

user_paths_to_path_specs(p, walk) ==
    LET r == CASE p.kind = "list" -> ListPathSpecs(p.items)
               [] p.kind = "dict" -> [err |-> "ok", specs |-> p.items]
               [] p.kind = "path" -> SinglePathSpecs(p.items[1], walk)
    IN IF r.err # "ok" THEN r
       ELSE IF Len(r.specs) = 0 THEN [err |-> "Empty", specs |-> <<>>]
       ELSE r

----------------------------------------------------------------------------
(* LocalArtifactManifestV1.__init__                                        *)

LocalArtifactEntry(path, hash, local_path) ==
    [path |-> path, hash |-> hash, local_path |-> local_path]

\* sort order of the logical paths that occur ("a.txt" < "artifact-..." < "b.txt")
PathRank(p) ==
    CASE p = "a.txt" -> 1
      [] p = ARTIFACT_METADATA_FILENAME -> 2
      [] p = "b.txt" -> 3
      [] p = "c.txt" -> 4

RECURSIVE SortByPath(_)
SortByPath(S) ==
    IF S = {} THEN <<>>
    ELSE LET m == CHOOSE e \in S : \A o \in S : PathRank(e[1]) <= PathRank(o[1])
         IN <<m>> \o SortByPath(S \ {m})

\* artifact_manifest.ArtifactManifestV1(entries).digest: a fingerprint of the
\* (logical path, content hash) pairs taken in sorted order of logical path
ManifestDigest(entries) ==
    md5(SortByPath({<<entries[i].path, entries[i].hash>> : i \in DOMAIN entries}))

\* the check of lines 130-132: both sources of metadata are present
AmbiguousMetadataIgnored(path_specs, metadata) == FALSE

AmbiguousMetadata(path_specs, metadata) ==
    ARTIFACT_METADATA_FILENAME \in Keys(path_specs) /\ metadata # None

\* a buggy variant: the loop over the path specs misses the first item
FileSpecsSkipFirst(path_specs) == SubSeq(path_specs, 2, Len(path_specs))

\* the items the loop of lines 143-145 visits, in dict order
FileSpecs(path_specs) == path_specs

FileEntries(path_specs) ==
    LET fs == FileSpecs(path_specs)
    IN [i \in DOMAIN fs |->
          LocalArtifactEntry(fs[i][1], hash_file(fs[i][2]), abspath(fs[i][2]))]

MetadataEntries(metadata) ==
    IF metadata = None THEN <<>>
    ELSE <<LocalArtifactEntry(ARTIFACT_METADATA_FILENAME,
                              MetadataDigest(metadata[1]), None)>>

Failed(status, path_specs) ==
    [status |-> status, path_specs |-> path_specs, metadata |-> None,
     local_entries |-> <<>>, digest |-> None]

\* The constructor, on input p with explicit metadata argument m.  path_specs
\* is the dict self._path_specs as the call leaves it: for a dict input it is
\* the caller's own object (line 99 binds it, line 134 pops from it).
LocalArtifactManifestV1(p, m, walk) ==
    LET r == user_paths_to_path_specs(p, walk)
        hasFile == ARTIFACT_METADATA_FILENAME \in Keys(r.specs)
        metaPath == Lookup(r.specs, ARTIFACT_METADATA_FILENAME)
        popped == IF hasFile THEN Pop(r.specs, ARTIFACT_METADATA_FILENAME)
                  ELSE r.specs
        metadata == IF hasFile THEN Some(json_load(FileContent(metaPath))) ELSE m
    IN IF r.err # "ok" THEN Failed(r.err, IF p.kind = "dict" THEN p.items ELSE <<>>)
       ELSE IF AmbiguousMetadata(r.specs, m) THEN Failed("AmbiguousMetadata", r.specs)
       ELSE IF hasFile /\ ~isfile(metaPath) THEN Failed("IOError", popped)
       ELSE IF hasFile /\ ~IsJson(FileContent(metaPath))
            THEN Failed("JSONDecodeError", popped)
       ELSE IF \E i \in DOMAIN popped : ~isfile(popped[i][2])
            THEN Failed("IOError", popped)
       ELSE LET entries == MetadataEntries(metadata) \o FileEntries(popped)
            IN [status |-> "ok", path_specs |-> popped, metadata |-> metadata,
                local_entries |-> entries, digest |-> Some(ManifestDigest(entries))]

NoManifest == [status |-> "none", path_specs |-> <<>>, metadata |-> None,
               local_entries |-> <<>>, digest |-> None, input |-> None,
               metaArg |-> None, spec0 |-> <<>>]

\* the call's result together with what the call was given (history)
Built(p, m, walk) ==
    LET b == LocalArtifactManifestV1(p, m, walk)
    IN [status |-> b.status, path_specs |-> b.path_specs, metadata |-> b.metadata,
        local_entries |-> b.local_entries, digest |-> b.digest,
        input |-> Some(p), metaArg |-> m,
        spec0 |-> user_paths_to_path_specs(p, walk).specs]

----------------------------------------------------------------------------
(* Inputs a caller can pass *)

LogicalPaths == {"a.txt", "b.txt", ARTIFACT_METADATA_FILENAME}

InputPaths == LocalFiles \cup MissingFiles

ListInputs == {[kind |-> "list", items |-> s] : s \in SeqsUpTo(InputPaths, MaxLen)}

DictInputs ==
    {[kind |-> "dict", items |-> s] :
        s \in {t \in SeqsUpTo(LogicalPaths \X LocalFiles, MaxLen) :
                 \A i, j \in DOMAIN t : t[i][1] = t[j][1] => i = j}}

PathInputs ==
    {[kind |-> "path", items |-> <<p>>] :
        p \in Directories \cup {<<"x", "a.txt">>, <<"nowhere">>}}

Inputs == ListInputs \cup DictInputs \cup PathInputs

\* the inputs of the LocalArtifact whose save and wait are followed
ArtifactInputs ==
    {[kind |-> "list", items |-> <<<<"x", "a.txt">>, <<"x", ARTIFACT_METADATA_FILENAME>>>>],
     [kind |-> "dict",
      items |-> <<<<ARTIFACT_METADATA_FILENAME, <<"x", ARTIFACT_METADATA_FILENAME>>>>>>],
     [kind |-> "dict",
      items |-> <<<<"b.txt", <<"y", "a.txt">>>>, <<"a.txt", <<"x", "a.txt">>>>>>],
     [kind |-> "path", items |-> <<<<"x">>>>],
     [kind |-> "path", items |-> <<<<"y">>>>]}

WalkOf(p) == IF p.kind = "path" THEN WalkOrders(p.items[1]) ELSE {<<>>}

----------------------------------------------------------------------------
(* Manifest construction as a state machine: the caller builds manifests   *)
(* from its input object, or from a reordered copy of the original input.  *)

SyncIdle ==
    /\ pc = "idle" /\ idx = 0 /\ server_artifact = None
    /\ pending = {} /\ calls = <<>> /\ callsBase = 0
    /\ saveOutcome = "none" /\ waitOutcome = "none" /\ savedOk = FALSE
    /\ nSaves = 0 /\ nCreate = 0

InitManifest ==
    /\ paths \in Inputs
    /\ origPaths = paths
    /\ manifest = NoManifest
    /\ prev = NoManifest
    /\ remote = [v \in VersionIds |-> "NONE"]
    /\ SyncIdle

\* LocalArtifactManifestV1(paths, metadata=m) on the caller's own object
Build(m) ==
    \E walk \in WalkOf(paths) :
        LET b == Built(paths, m, walk)
        IN /\ manifest' = b
           /\ prev' = manifest
           /\ paths' = IF paths.kind = "dict"
                       THEN [paths EXCEPT !.items = b.path_specs]
                       ELSE paths
           /\ UNCHANGED <<origPaths, syncVars>>

\* the same call on a fresh copy of the original input, items reordered
BuildReordered(m) ==
    \E items \in Reorderings(origPaths.items) :
      LET p == [origPaths EXCEPT !.items = items]
      IN \E walk \in WalkOf(p) :
           /\ manifest' = Built(p, m, walk)
           /\ prev' = manifest
           /\ UNCHANGED <<paths, origPaths, syncVars>>

NextManifest ==
    \/ \E m \in MetadataArgs : Build(m)
    \/ \E m \in MetadataArgs : BuildReordered(m)

SpecManifest == InitManifest /\ [][NextManifest]_vars

----------------------------------------------------------------------------
(* LocalArtifact: save and wait, one caller thread, against the registry   *)
(* (create_artifact_version) and the file pusher (file_changed,            *)
(* commit_artifact), whose transfers complete asynchronously.              *)

entries == manifest.local_entries

\* a buggy variant: an already committed version is uploaded again
SaveBranchReupload(state) ==
    IF state = "COMMITTED" \/ state = "PENDING" THEN "upload" ELSE "raise"

\* a buggy variant: only a committed version is recognised, the rest is uploaded
SaveBranchNoRaise(state) ==
    IF state = "COMMITTED" THEN "return" ELSE "upload"

\* the branch of lines 199-204 on the state the registry returned
SaveBranch(state) ==
    IF state = "COMMITTED" THEN "return"
    ELSE IF state # "PENDING" THEN "raise"
    ELSE "upload"

\* a buggy variant: the metadata entry is pushed from its (absent) local path
FileChangedCallLocalOnly(entry, id) ==
    [op |-> "file_changed", path |-> entry.path, id |-> id,
     src |-> [kind |-> "local", path |-> entry.local_path, content |-> None]]

\* the file_changed call of lines 209-215 for one entry
FileChangedCall(entry, id) ==
    IF entry.path = ARTIFACT_METADATA_FILENAME
    THEN [op |-> "file_changed", path |-> entry.path, id |-> id,
          src |-> [kind |-> "temp", path |-> None,
                   content |-> Some(MetadataDump(manifest.metadata[1]))]]
    ELSE [op |-> "file_changed", path |-> entry.path, id |-> id,
          src |-> [kind |-> "local", path |-> entry.local_path, content |-> None]]

\* the commit_artifact call of line 216
CommitArtifactCall(id) ==
    [op |-> "commit_artifact", path |-> "", id |-> id,
     src |-> [kind |-> "none", path |-> None, content |-> None]]

\* a buggy variant: the loop stops one entry early
AfterEntryOffByOne(i) ==
    IF i >= Len(entries) THEN "save_commit" ELSE "save_loop"

\* where save continues once the loop of line 205 stands before entry i
AfterEntry(i) ==
    IF i > Len(entries) THEN "save_commit" ELSE "save_loop"

\* the registry's answer to create_artifact_version: the version with some id,
\* created as PENDING when it did not exist
Created(id) ==
    IF remote[id] = "NONE" THEN [remote EXCEPT ![id] = "PENDING"] ELSE remote

\* save, lines 193-204: create the version, keep it, branch on its state
SaveCall ==
    /\ pc = "idle"
    /\ nSaves < MaxSaves
    /\ \E id \in VersionIds :
         LET v == [id |-> id, state |-> Created(id)[id]]
             branch == SaveBranch(v.state)
         IN /\ remote' = Created(id)
            /\ server_artifact' = Some(v)
            /\ nSaves' = nSaves + 1
            /\ nCreate' = nCreate + 1
            /\ callsBase' = Len(calls)
            /\ idx' = 1
            /\ pc' = IF branch = "upload" THEN AfterEntry(1) ELSE "idle"
            /\ saveOutcome' = CASE branch = "return" -> "returned"
                                [] branch = "raise" -> "raised"
                                [] branch = "upload" -> "running"
            /\ savedOk' = (savedOk \/ branch = "return")
    /\ UNCHANGED <<manifestVars, pending, calls, waitOutcome>>

\* save, lines 205-215: one iteration of the loop over the entries
SaveFileChanged ==
    /\ pc = "save_loop"
    /\ LET c == FileChangedCall(entries[idx], server_artifact[1].id)
       IN /\ calls' = Append(calls, c)
          /\ pending' = pending \cup {[path |-> c.path, id |-> c.id]}
    /\ idx' = idx + 1
    /\ pc' = AfterEntry(idx + 1)
    /\ UNCHANGED <<manifestVars, server_artifact, remote, callsBase, saveOutcome,
                   waitOutcome, savedOk, nSaves, nCreate>>

\* save, lines 216-217: commit_artifact, return the version
SaveCommit ==
    /\ pc = "save_commit"
    /\ calls' = Append(calls, CommitArtifactCall(server_artifact[1].id))
    /\ pc' = "idle"
    /\ saveOutcome' = "returned"
    /\ savedOk' = TRUE
    /\ UNCHANGED <<manifestVars, idx, server_artifact, remote, pending, callsBase,
                   waitOutcome, nSaves, nCreate>>

\* the transport acknowledges one transfer
Ack ==
    /\ \E t \in pending : pending' = pending \ {t}
    /\ UNCHANGED <<manifestVars, pc, idx, server_artifact, remote, calls, callsBase,
                   saveOutcome, waitOutcome, savedOk, nSaves, nCreate>>

\* the registry moves a version along its lifecycle
RemoteStep ==
    /\ \E id \in VersionIds, s \in VersionStates :
         /\ \/ remote[id] = "PENDING" /\ s \in {"COMMITTED", "DELETED"}
            \/ remote[id] = "COMMITTED" /\ s \in {"READY", "DELETED"}
         /\ remote' = [remote EXCEPT ![id] = s]
    /\ UNCHANGED <<manifestVars, pc, idx, server_artifact, pending, calls, callsBase,
                   saveOutcome, waitOutcome, savedOk, nSaves, nCreate>>

\* wait, lines 223-224
WaitCall ==
    /\ pc = "idle"
    /\ IF server_artifact = None
       THEN /\ waitOutcome' = "NotSaved"
            /\ pc' = "idle"
       ELSE /\ waitOutcome' = "running"
            /\ pc' = "wait_check"
    /\ UNCHANGED <<manifestVars, idx, server_artifact, remote, pending, calls,
                   callsBase, saveOutcome, savedOk, nSaves, nCreate>>

\* wait, line 225: the loop condition, read from the version save kept
WaitCheck ==
    /\ pc = "wait_check"
    /\ IF server_artifact[1].state = "READY"
       THEN /\ pc' = "idle"
            /\ waitOutcome' = "returned"
       ELSE /\ pc' = "wait_sleep"
            /\ waitOutcome' = waitOutcome
    /\ UNCHANGED <<manifestVars, idx, server_artifact, remote, pending, calls,
                   callsBase, saveOutcome, savedOk, nSaves, nCreate>>

\* wait, line 226: time.sleep(2)
WaitSleep ==
    /\ pc = "wait_sleep"
    /\ pc' = "wait_check"
    /\ UNCHANGED <<manifestVars, idx, server_artifact, remote, pending, calls,
                   callsBase, saveOutcome, waitOutcome, savedOk, nSaves, nCreate>>

\* LocalArtifact.__init__ has returned: the manifest was built from some input.
\* The registry may already hold versions, made by other runs, in any state.
Init ==
    /\ origPaths \in ArtifactInputs
    /\ \E m \in MetadataArgs, walk \in WalkOf(origPaths) :
         /\ manifest = Built(origPaths, m, walk)
         /\ manifest.status = "ok"
    /\ paths = IF origPaths.kind = "dict"
               THEN [origPaths EXCEPT !.items = manifest.path_specs]
               ELSE origPaths
    /\ prev = NoManifest
    /\ remote \in [VersionIds -> {"NONE"} \cup VersionStates]
    /\ SyncIdle

Next ==
    \/ SaveCall
    \/ SaveFileChanged
    \/ SaveCommit
    \/ Ack
    \/ RemoteStep
    \/ WaitCall
    \/ WaitCheck
    \/ WaitSleep

Spec == Init /\ [][Next]_vars

\* the caller thread keeps running and the transport keeps acknowledging
FairSpec ==
    /\ Spec
    /\ WF_vars(SaveFileChanged) /\ WF_vars(SaveCommit)
    /\ WF_vars(WaitCheck) /\ WF_vars(WaitSleep)
    /\ WF_vars(Ack)

----------------------------------------------------------------------------
(* Properties of save and wait (specifications Spec and FairSpec)          *)

InSave == pc \in {"save_loop", "save_commit"}
InWait == pc \in {"wait_check", "wait_sleep"}

\* the file pusher calls the current / latest save has issued
SaveCalls == SubSeq(calls, callsBase + 1, Len(calls))

\* C1: when create_artifact_version reports COMMITTED, save returns at once
\* and has issued no file_changed and no commit_artifact call: the calls made
\* by earlier saves are all there are.
C1_CommittedShortCircuit ==
    (server_artifact # None /\ server_artifact[1].state = "COMMITTED")
        => /\ ~InSave
           /\ saveOutcome = "returned"
           /\ Len(calls) = callsBase

\* a second save found the version COMMITTED after a first save had uploaded
C1_Witness ==
    /\ nSaves = 2
    /\ server_artifact # None /\ server_artifact[1].state = "COMMITTED"
    /\ saveOutcome = "returned"
    /\ callsBase > 0 /\ Len(calls) = callsBase

\* C2: a save on a PENDING version has issued, when it returns, exactly one
\* file_changed per manifest entry in order, each with the returned id, the
\* metadata entry from the canonical dump and the others from their local
\* path, followed by exactly one commit_artifact with the same id.
C2_PendingUploadsThenCommits ==
    (~InSave /\ server_artifact # None /\ server_artifact[1].state = "PENDING")
        => LET id == server_artifact[1].id
               n == Len(entries)
           IN /\ saveOutcome = "returned"
              /\ Len(SaveCalls) = n + 1
              /\ \A i \in 1..n :
                   /\ SaveCalls[i].op = "file_changed"
                   /\ SaveCalls[i].path = entries[i].path
                   /\ SaveCalls[i].id = id
                   /\ IF entries[i].path = ARTIFACT_METADATA_FILENAME
                      THEN /\ SaveCalls[i].src.kind = "temp"
                           /\ SaveCalls[i].src.content =
                                Some(<<"json", SortPairs(Range(manifest.metadata[1]))>>)
                      ELSE /\ SaveCalls[i].src.kind = "local"
                           /\ SaveCalls[i].src.path = entries[i].local_path
              /\ SaveCalls[n + 1].op = "commit_artifact"
              /\ SaveCalls[n + 1].id = id

\* a second save uploaded a manifest with a metadata entry under version id 2
C2_Witness ==
    /\ ~InSave /\ nSaves = 2 /\ callsBase > 0
    /\ server_artifact # None /\ server_artifact[1].state = "PENDING"
    /\ server_artifact[1].id = 2
    /\ Len(entries) >= 2 /\ entries[1].path = ARTIFACT_METADATA_FILENAME
    /\ Len(SaveCalls) = Len(entries) + 1

\* C3 as stated: commit_artifact for a version id is never issued while a
\* transfer for that id is still unacknowledged.
C3_CommitAfterAllAcknowledged ==
    [][(pc = "save_commit" /\ pc' = "idle")
         => \A t \in pending : t.id # server_artifact[1].id]_vars

\* C3 as amended: commit_artifact for a version id is issued only after save
\* has issued file_changed with that id for every entry of the manifest, as
\* the calls directly before it; acknowledgement is not awaited.
C3_CommitAfterAllSubmitted ==
    \A k \in DOMAIN calls :
        calls[k].op = "commit_artifact"
            => /\ k > Len(entries)
               /\ \A i \in 1..Len(entries) :
                    LET c == calls[k - Len(entries) + i - 1]
                    IN /\ c.op = "file_changed"
                       /\ c.path = entries[i].path
                       /\ c.id = calls[k].id

\* save has returned after commit_artifact while a transfer is unacknowledged
C3_Witness ==
    /\ pc = "idle" /\ saveOutcome = "returned"
    /\ Len(calls) > callsBase
    /\ calls[Len(calls)].op = "commit_artifact"
    /\ \E t \in pending : t.id = calls[Len(calls)].id

\* C4: when create_artifact_version reports a state other than PENDING and
\* COMMITTED, save raises, has issued no file pusher call, and has called
\* create_artifact_version once.
C4_UnexpectedStateIsFatal ==
    (server_artifact # None
       /\ server_artifact[1].state \notin {"PENDING", "COMMITTED"})
        => /\ ~InSave
           /\ saveOutcome = "raised"
           /\ Len(calls) = callsBase
           /\ nCreate = nSaves

\* a save met a READY version after an earlier save had uploaded
C4_Witness ==
    /\ server_artifact # None /\ server_artifact[1].state = "READY"
    /\ saveOutcome = "raised"
    /\ callsBase > 0 /\ Len(calls) = callsBase

\* C5: after a successful save, once the registry holds the version as READY
\* a running wait eventually returns.
C5_WaitReturnsOnceReady ==
    (saveOutcome = "returned" /\ InWait
       /\ remote[server_artifact[1].id] = "READY")
        ~> (waitOutcome = "returned")

\* C6: while no save has returned a version, every wait call has raised the
\* not-saved error.
C6_NotSavedUntilSaveSucceeds ==
    ~savedOk => (~InWait /\ waitOutcome \in {"none", "NotSaved"})

----------------------------------------------------------------------------
(* Properties of manifest construction (specification SpecManifest)        *)

\* C7: two manifests built from the same (logical path, local path) pairs and
\* the same metadata argument, in whatever order, have equal digests.
C7_DigestIgnoresOrder ==
    (/\ manifest.status = "ok" /\ prev.status = "ok"
     /\ Range(manifest.spec0) = Range(prev.spec0)
     /\ manifest.metaArg = prev.metaArg)
        => manifest.digest = prev.digest

\* two manifests of two or more files whose entries are stored in different orders
C7_Witness ==
    /\ manifest.status = "ok" /\ prev.status = "ok"
    /\ Range(manifest.spec0) = Range(prev.spec0)
    /\ manifest.metaArg = prev.metaArg
    /\ Len(manifest.spec0) >= 2
    /\ manifest.local_entries # prev.local_entries
    /\ manifest.digest = prev.digest

\* C8: a build given a metadata argument whose resolved path spec holds
\* artifact-metadata.json fails as ambiguous and yields no manifest; a build
\* fails as ambiguous only when both are present.
C8_AmbiguousMetadataRejected ==
    LET both == /\ manifest.metaArg # None
                /\ ARTIFACT_METADATA_FILENAME \in Keys(manifest.spec0)
    IN /\ both => /\ manifest.status = "AmbiguousMetadata"
                  /\ manifest.local_entries = <<>>
                  /\ manifest.digest = None
       /\ manifest.status = "AmbiguousMetadata" => both

\* an ambiguous build after a build of the same input with the file alone
C8_Witness ==
    /\ manifest.status = "AmbiguousMetadata"
    /\ manifest.metaArg # None
    /\ prev.status = "ok" /\ prev.metaArg = None /\ prev.metadata # None

\* C9: a list input with two elements of the same basename fails with the
\* duplicate-name error and yields no entries; a mapping input never fails
\* with it and its items are all kept in the resolved path spec.
C9_DuplicateBasenamesRejected ==
    manifest.input # None =>
        LET p == manifest.input[1]
        IN /\ (p.kind = "list"
                 /\ \E i, j \in DOMAIN p.items :
                      i # j /\ p.items[i][Len(p.items[i])] = p.items[j][Len(p.items[j])])
              => /\ manifest.status = "DuplicateName"
                 /\ manifest.local_entries = <<>>
           /\ (p.kind = "dict" /\ Len(p.items) > 0)
              => /\ manifest.status # "DuplicateName"
                 /\ manifest.spec0 = p.items

\* a list of two different files of the same basename was refused
C9_Witness ==
    /\ manifest.input # None
    /\ manifest.input[1].kind = "list"
    /\ manifest.input[1].items = <<<<"x", "a.txt">>, <<"y", "a.txt">>>>
    /\ manifest.status = "DuplicateName"

\* C10: building a manifest leaves the caller's input object as the caller
\* made it.
C10_CallerMappingUnchanged == paths = origPaths

====
